---- MODULE Spec2Model ----
(***************************************************************************)
(* OSINT-Dashboard: the ingestion pipeline.                                *)
(*   services/aggregatorService.js  cache, health records, filters, sort   *)
(*   services/gdeltService.js       sentiment-news adapter                 *)
(*   services/usgsService.js        seismic adapter                        *)
(*   services/rssService.js         syndicated-feed adapter, severity      *)
(*   services/newsService.js        story correlator                       *)
(*   services/locationService.js    location extraction                    *)
(*   components/NewsFeed.js, WorldMap.js  feed cards and map markers       *)
(*   main.js                        refresh trigger of the application     *)
(* Time is counted in minutes.  A text is represented by what the regular  *)
(* expressions of the code can observe in it.                              *)
(***************************************************************************)
EXTENDS Integers, Sequences, FiniteSets, TLC

VARIABLES now, cachedEvents, lastFetchTime, feedHealth, inflight, settled,
          ret, faults, reader, corr, sev, feed, loc, view, app

vars == <<now, cachedEvents, lastFetchTime, feedHealth, inflight, settled,
          ret, faults, reader, corr, sev, feed, loc, view, app>>

\* the aggregator and its clock
pipelineVars == <<now, cachedEvents, lastFetchTime, feedHealth, inflight,
                  settled, ret, faults, reader>>

\* one call of correlateStories, of calculateSeverity, of fetchRSSFeed, of
\* extractLocation; the feed and the map; the application (main.js)
callVars == <<corr, sev, feed, loc, view, app>>


(***************************************************************************)
(* Bounds of the exploration.                                              *)
(***************************************************************************)
MaxNow == 6
MaxInFlight == 2

(***************************************************************************)
(* Program constants (minutes; magnitudes in tenths).                      *)
(***************************************************************************)
CACHE_DURATION_MS == 5
MAX_AGE_MS == 1440
THREE_HOURS_MS == 180
NULL == 0
InvalidDate == 0 - 1000000

SourceOrder == <<"gdelt", "usgs", "rss">>
Sources == {"gdelt", "usgs", "rss"}

(***************************************************************************)
(* Sequence helpers.                                                       *)
(***************************************************************************)
Range(s) == {s[i] : i \in 1..Len(s)}

RECURSIVE FilterSeq(_, _)
FilterSeq(s, keep) ==
    IF s = <<>> THEN <<>>
    ELSE IF Head(s) \in keep THEN <<Head(s)>> \o FilterSeq(Tail(s), keep)
         ELSE FilterSeq(Tail(s), keep)

(***************************************************************************)
(* Texts.  empty: the string is ''; nonLatin: it holds a character of the  *)
(* ranges of nonLatinPattern; funcWord: it holds a word of englishWords.   *)
(***************************************************************************)
Text(e, n, w) == [empty |-> e, nonLatin |-> n, funcWord |-> w]
EnglishText == Text(FALSE, FALSE, TRUE)
PlainText == Text(FALSE, FALSE, FALSE)
ForeignText == Text(FALSE, TRUE, FALSE)
MixedText == Text(FALSE, TRUE, TRUE)
EmptyText == Text(TRUE, FALSE, FALSE)

\* variant: the script test is left out
isEnglish_WordsOnly(text) ==
    IF text.empty THEN FALSE
    ELSE text.funcWord

isEnglish(text) ==
    IF text.empty THEN FALSE
    ELSE IF text.nonLatin THEN FALSE
    ELSE text.funcWord

(***************************************************************************)
(* Events.  eventType "none" stands for an absent eventType.               *)
(***************************************************************************)
EventId(src, key, at) == [src |-> src, key |-> key, at |-> at]

Event(id, title, summary, source, ts, importance, eventType, isBreaking, isRecent) ==
    [id |-> id, title |-> title, summary |-> summary, source |-> source,
     timestamp |-> ts, importance |-> importance, eventType |-> eventType,
     isBreaking |-> isBreaking, isRecent |-> isRecent, sourceCount |-> 1,
     correlatedWith |-> <<>>, keywords |-> {}]

filterEnglishOnly(events) ==
    FilterSeq(events, {e \in Range(events) :
                          IF e.eventType = "earthquake" THEN TRUE
                          ELSE isEnglish(e.title)})

\* variant: an event exactly 24 hours old is kept
filterLast24Hours_Inclusive(events, t) ==
    LET cutoffTime == t - MAX_AGE_MS
    IN FilterSeq(events, {e \in Range(events) :
                             e.timestamp # InvalidDate /\ e.timestamp >= cutoffTime})

\* new Date(x).getTime() of an invalid date is NaN, and NaN > cutoff is false
filterLast24Hours(events, t) ==
    LET cutoffTime == t - MAX_AGE_MS
    IN FilterSeq(events, {e \in Range(events) :
                             e.timestamp # InvalidDate /\ e.timestamp > cutoffTime})

\* variant: importance compared the wrong way round
compareEvents_ImportanceAscending(a, b) ==
    IF a.isBreaking # b.isBreaking THEN (IF b.isBreaking THEN 1 ELSE 0 - 1)
    ELSE IF a.importance # b.importance THEN a.importance - b.importance
    ELSE b.timestamp - a.timestamp

\* the comparator of processEvents: negative puts a first
compareEvents(a, b) ==
    IF a.isBreaking # b.isBreaking THEN (IF b.isBreaking THEN 1 ELSE 0 - 1)
    ELSE IF a.importance # b.importance THEN b.importance - a.importance
    ELSE b.timestamp - a.timestamp

\* Array.prototype.sort is stable: x goes behind every element that does
\* not compare greater than it
RECURSIVE InsertSorted(_, _)
InsertSorted(s, x) ==
    IF s = <<>> THEN <<x>>
    ELSE IF compareEvents(Head(s), x) <= 0
         THEN <<Head(s)>> \o InsertSorted(Tail(s), x)
         ELSE <<x>> \o s

RECURSIVE SortEvents(_)
SortEvents(s) ==
    IF s = <<>> THEN <<>>
    ELSE InsertSorted(SortEvents(SubSeq(s, 1, Len(s) - 1)), s[Len(s)])

Min(a, b) == IF a < b THEN a ELSE b

\* variant: the boost is not capped at 5
boostEvent_NoCap(e, t) ==
    LET threeHoursAgo == t - THREE_HOURS_MS
        isRecent == e.timestamp > threeHoursAgo
        base == IF e.importance = 0 THEN 2 ELSE e.importance
        importance == IF e.isBreaking /\ isRecent THEN base + 1 ELSE base
    IN [e EXCEPT !.importance = importance,
                 !.isRecent = isRecent,
                 !.correlatedWith = <<>>,
                 !.sourceCount = IF e.sourceCount = 0 THEN 1 ELSE e.sourceCount]

\* variant: every breaking event is boosted, whatever its age
boostEvent_AnyAge(e, t) ==
    LET threeHoursAgo == t - THREE_HOURS_MS
        isRecent == e.timestamp > threeHoursAgo
        base == IF e.importance = 0 THEN 2 ELSE e.importance
        importance == IF e.isBreaking THEN Min(base + 1, 5) ELSE base
    IN [e EXCEPT !.importance = importance,
                 !.isRecent = isRecent,
                 !.correlatedWith = <<>>,
                 !.sourceCount = IF e.sourceCount = 0 THEN 1 ELSE e.sourceCount]

boostEvent(e, t) ==
    LET threeHoursAgo == t - THREE_HOURS_MS
        isRecent == e.timestamp > threeHoursAgo
        base == IF e.importance = 0 THEN 2 ELSE e.importance
        importance == IF e.isBreaking /\ isRecent
                      THEN Min(base + 1, 5)
                      ELSE base
    IN [e EXCEPT !.importance = importance,
                 !.isRecent = isRecent,
                 !.correlatedWith = <<>>,
                 !.sourceCount = IF e.sourceCount = 0 THEN 1 ELSE e.sourceCount]

processEvents(events, t) ==
    SortEvents([i \in 1..Len(events) |-> boostEvent(events[i], t)])

(***************************************************************************)
(* How a block of statements ends: it threw, or it returned value.         *)
(***************************************************************************)
Completion(threw, value) == [threw |-> threw, value |-> value]

\* variant: the catch block throws the error on
returnEmptyOnError_Rethrow(c) == c

\* try { ... } catch (error) { console.error(...); return []; }
returnEmptyOnError(c) ==
    IF c.threw THEN Completion(FALSE, <<>>) ELSE c

(***************************************************************************)
(* Sentiment-news adapter (gdeltService.js).  An article: title (a text,   *)
(* hasTitle FALSE when absent), url (0 when absent), domain ("" when       *)
(* absent), tone (an integer, 0 when absent or not a number), seen: how    *)
(* seendate reads ("missing", "valid": 14 digits of a real date,           *)
(* "malformed": a string that gives no date, "nonstring": not a string)    *)
(* and seenAge, the age in minutes of a valid seendate.                    *)
(***************************************************************************)
Abs(x) == IF x < 0 THEN 0 - x ELSE x

parseGDELTDate(article, t) ==
    IF article.seen = "missing" THEN t
    ELSE IF article.seen = "nonstring" THEN t
    ELSE IF article.seen = "valid" THEN t - article.seenAge
    ELSE InvalidDate

gdeltImportance(article) ==
    LET tone == Abs(article.tone)
    IN IF tone > 15 THEN 5
       ELSE IF tone > 10 THEN 4
       ELSE IF tone > 5 THEN 3
       ELSE 2

extractDomain(domain) == IF domain = "" THEN "GDELT" ELSE domain

normalizeGDELTData(data, t) ==
    IF ~data.has THEN <<>>
    ELSE [i \in 1..Len(data.list) |->
            LET article == data.list[i]
            IN Event(EventId("gdelt", IF article.url # 0 THEN article.url ELSE i - 1, t),
                     IF article.hasTitle THEN article.title ELSE PlainText,
                     IF article.seen = "missing" THEN EmptyText ELSE PlainText,
                     extractDomain(article.domain),
                     parseGDELTDate(article, t),
                     gdeltImportance(article),
                     "none",
                     Abs(article.tone) > 10,
                     FALSE)]

\* resp.kind: "transport" (fetch rejects), "http" (response.ok false),
\* "badjson" (response.json() rejects), "malformed" (JSON on which
\* normalizeGDELTData throws: an entry of articles that is null), "ok"
gdeltTry(resp, t) ==
    IF resp.kind = "ok" THEN Completion(FALSE, normalizeGDELTData(resp.data, t))
    ELSE Completion(TRUE, <<>>)

fetchGDELTEvents(resp, t) == returnEmptyOnError(gdeltTry(resp, t))

(***************************************************************************)
(* Seismic adapter (usgsService.js).  A feature: hasProps, hasGeometry,    *)
(* fid, mag (tenths of a magnitude), place (a text), hasTime and timeAge   *)
(* (age in minutes of properties.time).                                    *)
(***************************************************************************)
MinMagnitude == 45

usgsImportance(mag) ==
    IF mag >= 70 THEN 5
    ELSE IF mag >= 60 THEN 4
    ELSE IF mag >= 50 THEN 3
    ELSE 2

normalizeUSGSData(data, minMagnitude, t) ==
    IF ~data.has THEN <<>>
    ELSE LET kept == FilterSeq(data.list,
                        {f \in Range(data.list) :
                            f.hasProps /\ f.hasGeometry /\ f.mag >= minMagnitude})
         IN [i \in 1..Len(kept) |->
               LET f == kept[i]
                   threeHoursAgo == t - THREE_HOURS_MS
               IN Event(EventId("usgs", f.fid, 0),
                        f.place,
                        PlainText,
                        "USGS",
                        IF f.hasTime THEN t - f.timeAge ELSE InvalidDate,
                        usgsImportance(f.mag),
                        "earthquake",
                        f.hasTime /\ (t - f.timeAge > threeHoursAgo),
                        FALSE)]

\* resp.kind: "transport", "http", "badjson", "malformed" (JSON on which
\* normalizeUSGSData throws: a feature whose geometry has no coordinates),
\* "ok"
usgsTry(resp, minMagnitude, t) ==
    IF resp.kind = "ok"
    THEN Completion(FALSE, normalizeUSGSData(resp.data, minMagnitude, t))
    ELSE Completion(TRUE, <<>>)

fetchEarthquakes(resp, minMagnitude, t) ==
    returnEmptyOnError(usgsTry(resp, minMagnitude, t))

fetchMajorEarthquakes(resp, t) == fetchEarthquakes(resp, MinMagnitude, t)

(***************************************************************************)
(* Syndicated-feed adapter (rssService.js).  An item: title and desc       *)
(* (texts), hasTitle, kw (the tiers of SEVERITY_KEYWORDS with a keyword in *)
(* title + ' ' + description), breakingWord (the urgency pattern matches   *)
(* the title), pub ("missing", "valid", "unparseable") and pubAge.         *)
(***************************************************************************)
feedKeys == <<"bbc", "reuters", "ap", "npr", "france24">>
feedName == [bbc |-> "BBC", reuters |-> "Reuters", ap |-> "AP News",
             npr |-> "NPR", france24 |-> "France24"]
CORS_PROXIES == <<"allorigins", "corsproxy">>

\* variant: the tiers are tested from medium up and the first hit decides
keywordScore_LowestTier(kw) ==
    IF "medium" \in kw THEN 3
    ELSE IF "high" \in kw THEN 4
    ELSE IF "critical" \in kw THEN 5
    ELSE 2

\* calculateSeverity up to the flags: kw is the set of tiers of which a
\* keyword is a substring of the lower-cased title + ' ' + description
keywordScore(kw) ==
    LET s1 == IF "critical" \in kw THEN 5 ELSE 2
        s2 == IF s1 < 5 /\ "high" \in kw THEN 4 ELSE s1
        s3 == IF s2 < 4 /\ "medium" \in kw THEN 3 ELSE s2
    IN s3

\* variant: the recency boost is applied before the breaking boost
flagBoost_RecentFirst(score, isBreaking, isRecent) ==
    LET s4 == IF isRecent /\ score < 4 THEN Min(score + 1, 4) ELSE score
        s5 == IF isBreaking /\ s4 < 5 THEN Min(s4 + 1, 5) ELSE s4
    IN s5

\* calculateSeverity from the flags on
flagBoost(score, isBreaking, isRecent) ==
    LET s4 == IF isBreaking /\ score < 5 THEN Min(score + 1, 5) ELSE score
        s5 == IF isRecent /\ s4 < 4 THEN Min(s4 + 1, 4) ELSE s4
    IN s5

calculateSeverity(kw, isBreaking, isRecent) ==
    flagBoost(keywordScore(kw), isBreaking, isRecent)

\* the comparator of parseRSSXML; a NaN difference counts as 0
compareRSS(a, b) ==
    IF a.isBreaking # b.isBreaking THEN (IF b.isBreaking THEN 1 ELSE 0 - 1)
    ELSE IF a.timestamp = InvalidDate \/ b.timestamp = InvalidDate THEN 0
    ELSE b.timestamp - a.timestamp

RECURSIVE InsertRSS(_, _)
InsertRSS(s, x) ==
    IF s = <<>> THEN <<x>>
    ELSE IF compareRSS(Head(s), x) <= 0
         THEN <<Head(s)>> \o InsertRSS(Tail(s), x)
         ELSE <<x>> \o s

RECURSIVE SortRSS(_)
SortRSS(s) ==
    IF s = <<>> THEN <<>>
    ELSE InsertRSS(SortRSS(SubSeq(s, 1, Len(s) - 1)), s[Len(s)])

parseRSSXML(items, feedNo, t) ==
    LET threeHoursAgo == t - THREE_HOURS_MS
        mk(i) ==
            LET item == items[i]
                timestamp == IF item.pub = "missing" THEN t
                             ELSE IF item.pub = "valid" THEN t - item.pubAge
                             ELSE InvalidDate
                isRecent == timestamp # InvalidDate /\ timestamp > threeHoursAgo
                isBreaking == item.breakingWord
            IN Event(EventId("rss", 10 * feedNo + (i - 1), t),
                     IF item.hasTitle THEN item.title ELSE PlainText,
                     item.desc,
                     feedName[feedKeys[feedNo]],
                     timestamp,
                     calculateSeverity(item.kw, isBreaking, isRecent),
                     "none",
                     isBreaking,
                     isRecent)
    IN SortRSS([i \in 1..Len(items) |-> mk(i)])

\* variant: an answer without items sends the loop on to the next proxy
proxySucceeds_WithItems(attempt) ==
    attempt.kind = "ok" /\ attempt.items # <<>>

\* attempt.kind, what one proxy answers: "timeout" (fetch rejects), "http"
\* (response.ok false), "badjson" (response.json() rejects), "empty" (no
\* text), "parsererror" (the text holds the word parsererror), "notxml" (a
\* text that is no well-formed XML: it passes the test of line 98 and the
\* parser finds no item in it), "ok" (a feed with items).  The try block of
\* the loop returns for the last two and throws for the others.
proxySucceeds(attempt) ==
    attempt.kind = "ok" \/ attempt.kind = "notxml"

RECURSIVE tryProxies(_, _, _, _)
tryProxies(attempts, p, feedNo, t) ==
    IF p > Len(CORS_PROXIES) THEN <<>>
    ELSE IF proxySucceeds(attempts[p])
         THEN parseRSSXML(attempts[p].items, feedNo, t)
         ELSE tryProxies(attempts, p + 1, feedNo, t)

fetchRSSFeed(world, feedNo, t) == tryProxies(world[feedKeys[feedNo]], 1, feedNo, t)

RECURSIVE concatFeeds(_, _, _)
concatFeeds(world, feedNo, t) ==
    IF feedNo > Len(feedKeys) THEN <<>>
    ELSE fetchRSSFeed(world, feedNo, t) \o concatFeeds(world, feedNo + 1, t)

\* every fetchRSSFeed promise fulfils (each proxy attempt has its own catch)
\* and no statement after Promise.allSettled throws
fetchAllRSSFeeds(world, t) == Completion(FALSE, concatFeeds(world, 1, t))

(***************************************************************************)
(* Story correlator (newsService.js).  keywords is the Set built from      *)
(* event.keywords, empty when the event has none.                          *)
(***************************************************************************)
\* variant: the similarity has to exceed the threshold
similarEnough_Above(event1, event2) ==
    LET matches == Cardinality(event1.keywords \cap event2.keywords)
        totalUnique == Cardinality(event1.keywords \cup event2.keywords)
    IN totalUnique # 0 /\ 10 * matches > 3 * totalUnique

\* matches / totalUnique >= 0.3; 0 / 0 is NaN, which is not >= 0.3
similarEnough(event1, event2) ==
    LET matches == Cardinality(event1.keywords \cap event2.keywords)
        totalUnique == Cardinality(event1.keywords \cup event2.keywords)
    IN totalUnique # 0 /\ 10 * matches >= 3 * totalUnique

includes(list, x) == \E k \in 1..Len(list) : list[k] = x

\* variant: the id is appended and the count is left as it is
linkTo_KeepCount(e, other) ==
    IF includes(e.correlatedWith, other.id) THEN e
    ELSE [e EXCEPT !.correlatedWith = Append(@, other.id)]

linkTo(e, other) ==
    IF includes(e.correlatedWith, other.id) THEN e
    ELSE [e EXCEPT !.correlatedWith = Append(@, other.id),
                   !.sourceCount = @ + 1]

\* variant: stories of the same source are compared as well
linkPair_AnySource(ev, i, j) ==
    IF similarEnough(ev[i], ev[j])
    THEN [ev EXCEPT ![i] = linkTo(ev[i], ev[j]), ![j] = linkTo(ev[j], ev[i])]
    ELSE ev

linkPair(ev, i, j) ==
    IF ev[i].source = ev[j].source THEN ev
    ELSE IF similarEnough(ev[i], ev[j])
         THEN [ev EXCEPT ![i] = linkTo(ev[i], ev[j]), ![j] = linkTo(ev[j], ev[i])]
         ELSE ev

RECURSIVE correlatePairs(_, _, _)
correlatePairs(ev, i, j) ==
    IF i > Len(ev) THEN ev
    ELSE IF j > Len(ev) THEN correlatePairs(ev, i + 1, i + 2)
    ELSE correlatePairs(linkPair(ev, i, j), i, j + 1)

\* variant: the lists and counts of the input are kept and every similar
\* story of another source is appended to them
correlateStories_Accumulate(events) ==
    LET partners(i) ==
            SelectSeq([k \in 1..Len(events) |-> k],
                      LAMBDA k : /\ k # i
                                 /\ events[k].source # events[i].source
                                 /\ similarEnough(events[i], events[k]))
        linked == [i \in 1..Len(events) |->
                     [events[i] EXCEPT
                         !.correlatedWith =
                             @ \o [n \in 1..Len(partners(i)) |-> events[partners(i)[n]].id],
                         !.sourceCount = @ + Len(partners(i))]]
    IN [i \in 1..Len(linked) |->
          [linked[i] EXCEPT !.importance =
              IF linked[i].sourceCount >= 3 THEN 5
              ELSE IF linked[i].sourceCount >= 2 THEN 4
              ELSE 2]]

correlateStories(events) ==
    LET correlatedEvents ==
            [i \in 1..Len(events) |->
                [events[i] EXCEPT !.importance = 2,
                                  !.correlatedWith = <<>>,
                                  !.sourceCount = 1]]
        linked == correlatePairs(correlatedEvents, 1, 2)
    IN [i \in 1..Len(linked) |->
          [linked[i] EXCEPT !.importance =
              IF linked[i].sourceCount >= 3 THEN 5
              ELSE IF linked[i].sourceCount >= 2 THEN 4
              ELSE 2]]

(***************************************************************************)
(* Location extraction (locationService.js).  Part of the three tables, in *)
(* the order of the source; latitudes and longitudes in tenths of a        *)
(* degree.                                                                 *)
(***************************************************************************)
Country(key, name, lat, lng, code, aliases) ==
    [key |-> key, name |-> name, lat |-> lat, lng |-> lng, code |-> code,
     country |-> "", type |-> "", aliases |-> aliases]

Place(key, name, lat, lng, country, type) ==
    [key |-> key, name |-> name, lat |-> lat, lng |-> lng, code |-> "",
     country |-> country, type |-> type, aliases |-> <<>>]

COUNTRIES ==
    <<Country("france", "France", 462, 22, "FR", <<"french", "paris">>),
      Country("ukraine", "Ukraine", 484, 312, "UA", <<"kyiv">>),
      Country("russia", "Russia", 615, 1053, "RU", <<"moscow", "kremlin">>)>>

MAJOR_CITIES ==
    <<Place("paris", "Paris", 489, 24, "FR", ""),
      Place("moscow", "Moscow", 558, 376, "RU", ""),
      Place("kyiv", "Kyiv", 505, 305, "UA", "")>>

REGIONS ==
    <<Place("europe", "Europe", 545, 153, "", "regional"),
      Place("asia", "Asia", 340, 1006, "", "regional"),
      Place("east asia", "East Asia", 359, 1042, "", "regional")>>

\* { type: type, ...data }: a type property of data ("" when it has none)
\* replaces the one written before the spread
withType(type, data) ==
    [data EXCEPT !.type = IF data.type = "" THEN type ELSE data.type]

\* Map.prototype.set: a key already present keeps its place in the
\* iteration order and gets the new value
mapSet(map, key, value) ==
    IF \E i \in 1..Len(map) : map[i].key = key
    THEN [i \in 1..Len(map) |->
             IF map[i].key = key THEN [key |-> key, data |-> value] ELSE map[i]]
    ELSE Append(map, [key |-> key, data |-> value])

RECURSIVE setAll(_, _, _)
setAll(map, keys, value) ==
    IF keys = <<>> THEN map
    ELSE setAll(mapSet(map, Head(keys), value), Tail(keys), value)

\* variant: the aliases of a country are not put into the index
addCountries_KeysOnly(map, countries) ==
    LET RECURSIVE add(_, _)
        add(m, cs) ==
            IF cs = <<>> THEN m
            ELSE add(mapSet(m, Head(cs).key, withType("country", Head(cs))),
                     Tail(cs))
    IN add(map, countries)

\* searchIndex.set(key, ...) and searchIndex.set(alias, ...) per country
addCountries(map, countries) ==
    LET RECURSIVE add(_, _)
        add(m, cs) ==
            IF cs = <<>> THEN m
            ELSE add(setAll(m, <<Head(cs).key>> \o Head(cs).aliases,
                            withType("country", Head(cs))),
                     Tail(cs))
    IN add(map, countries)

addPlaces(map, places, type) ==
    LET RECURSIVE add(_, _)
        add(m, ps) ==
            IF ps = <<>> THEN m
            ELSE add(mapSet(m, Head(ps).key, withType(type, Head(ps))),
                     Tail(ps))
    IN add(map, places)

searchIndex ==
    addPlaces(addPlaces(addCountries(<<>>, COUNTRIES), MAJOR_CITIES, "city"),
              REGIONS, "region")

\* a text: blank (null, undefined or ''), and words, the keys of the index
\* that the pattern \bkey\b finds in it
TextOf(blank, words) == [blank |-> blank, words |-> words]

\* variant: a later key of the same length replaces the match
scanIndex_LastLongest(text, i, bestMatch, bestMatchLength) ==
    LET RECURSIVE scan(_, _, _)
        scan(k, best, bestLength) ==
            IF k > Len(searchIndex) THEN [data |-> best, length |-> bestLength]
            ELSE IF searchIndex[k].key \in text.words
                       /\ Len(searchIndex[k].key) >= bestLength
                 THEN scan(k + 1, searchIndex[k].data, Len(searchIndex[k].key))
                 ELSE scan(k + 1, best, bestLength)
    IN scan(i, bestMatch, bestMatchLength)

\* the loop over searchIndex.entries() from entry i on
scanIndex(text, i, bestMatch, bestMatchLength) ==
    LET RECURSIVE scan(_, _, _)
        scan(k, best, bestLength) ==
            IF k > Len(searchIndex) THEN [data |-> best, length |-> bestLength]
            ELSE IF searchIndex[k].key \in text.words
                       /\ Len(searchIndex[k].key) > bestLength
                 THEN scan(k + 1, searchIndex[k].data, Len(searchIndex[k].key))
                 ELSE scan(k + 1, best, bestLength)
    IN scan(i, bestMatch, bestMatchLength)

NoLocation == [found |-> FALSE]

extractLocation(text) ==
    IF text.blank THEN NoLocation
    ELSE LET scanned == scanIndex(text, 1, Place("", "", 0, 0, "", ""), 0)
             bestMatch == scanned.data
         IN IF scanned.length = 0 THEN NoLocation
            ELSE [found |-> TRUE,
                  name |-> bestMatch.name,
                  lat |-> bestMatch.lat,
                  lng |-> bestMatch.lng,
                  type |-> IF bestMatch.type = "region" THEN "regional" ELSE "local",
                  countryCode |-> IF bestMatch.code # "" THEN bestMatch.code
                                  ELSE bestMatch.country,
                  confidence |-> IF scanned.length > 5 THEN "high" ELSE "medium"]

(***************************************************************************)
(* The feed (components/NewsFeed.js, NewsCard.js) and the map              *)
(* (components/WorldMap.js).  A title is "" (absent or empty), "Untitled", *)
(* "TBD" (a title that contains 'TBD') or "story"; importance 0 is an      *)
(* absent importance; a location is "valid", "global" (lat and lng null)   *)
(* or "tbd" (named 'Location TBD').                                        *)
(***************************************************************************)
ViewEvent(title, source, importance, eventType, marked, location) ==
    [title |-> title, source |-> source, importance |-> importance,
     eventType |-> eventType, isDeveloping |-> marked, location |-> location]

\* NewsFeed.isDeveloping
isDeveloping(event) ==
    LET hasPlaceholderTitle == event.title \in {"", "Untitled", "TBD"}
        hasPlaceholderLocation == event.location = "tbd"
        hasNoSource == event.source \in {"", "Unknown"}
        markedDeveloping == event.isDeveloping
    IN hasPlaceholderTitle \/ hasPlaceholderLocation \/ hasNoSource
          \/ markedDeveloping

\* the card of an event as NewsFeed.render leaves it
createNewsCard(event, eventId) ==
    [eventId |-> eventId,
     importance |-> IF event.importance = 0 THEN 2 ELSE event.importance,
     developing |-> isDeveloping(event),
     eventType |-> event.eventType]

\* NewsFeed.applyFilter: the display of one card
cardShown(card, filterLevel) ==
    CASE filterLevel = "critical" -> card.importance >= 5 /\ ~card.developing
      [] filterLevel = "high" -> card.importance = 4 /\ ~card.developing
      [] filterLevel = "medium" -> card.importance = 3 /\ ~card.developing
      [] filterLevel = "low" -> card.importance <= 2 /\ ~card.developing
      [] filterLevel = "earthquake" -> card.eventType = "earthquake"
      [] filterLevel = "developing" -> card.developing
      [] OTHER -> ~card.developing

\* the ids of the cards NewsFeed.applyFilter displays
applyFilter(events, filterLevel) ==
    {i \in 1..Len(events) : cardShown(createNewsCard(events[i], i), filterLevel)}

\* WorldMap.hasValidLocation
hasValidLocation(event) == event.location = "valid"

\* WorldMap.shouldShowEvent
shouldShowEvent(event, filterLevel) ==
    LET importance == IF event.importance = 0 THEN 2 ELSE event.importance
        isEarthquake == event.eventType = "earthquake"
        developing == event.isDeveloping \/ event.title \in {"", "Untitled"}
    IN CASE filterLevel = "critical" -> importance >= 5 /\ ~developing
         [] filterLevel = "high" -> importance = 4 /\ ~developing
         [] filterLevel = "medium" -> importance = 3 /\ ~developing
         [] filterLevel = "low" -> importance <= 2 /\ ~developing
         [] filterLevel = "earthquake" -> isEarthquake
         [] filterLevel = "developing" -> developing
         [] OTHER -> ~developing

\* WorldMap.addEvents: the ids of the markers put on the map
addEvents(events) == {i \in 1..Len(events) : hasValidLocation(events[i])}

\* WorldMap.filterMarkers: the ids of the markers left on the map
filterMarkers(events, filterLevel) ==
    {i \in addEvents(events) : shouldShowEvent(events[i], filterLevel)}

(***************************************************************************)
(* What the network can answer in one refresh cycle.                       *)
(***************************************************************************)
Article(title, hasTitle, url, domain, tone, seen, seenAge) ==
    [title |-> title, hasTitle |-> hasTitle, url |-> url, domain |-> domain,
     tone |-> tone, seen |-> seen, seenAge |-> seenAge]

Failure(kind) == [kind |-> kind]

GdeltResponses ==
    {Failure("transport"), Failure("http"), Failure("badjson"),
     Failure("malformed"),
     [kind |-> "ok", data |-> [has |-> FALSE, list |-> <<>>]],
     [kind |-> "ok", data |-> [has |-> TRUE, list |->
          <<Article(EnglishText, TRUE, 0, "", 6, "valid", 1439),
            Article(EnglishText, TRUE, 7, "BBC", 0 - 16, "valid", 10)>>]],
     [kind |-> "ok", data |-> [has |-> TRUE,
                               list |->
          <<Article(MixedText, TRUE, 9, "", 16, "valid", 10),
            Article(EnglishText, TRUE, 0, "", 0, "valid", 1440),
            Article(EnglishText, TRUE, 0, "", 0, "malformed", 0),
            Article(PlainText, FALSE, 0, "", 0, "valid", 10),
            Article(EnglishText, TRUE, 0, "", 6, "missing", 0),
            Article(EnglishText, TRUE, 8, "", 11, "valid", 200)>>]]}

Feature(fid, mag, place, hasTime, timeAge, hasProps, hasGeometry) ==
    [fid |-> fid, mag |-> mag, place |-> place, hasTime |-> hasTime,
     timeAge |-> timeAge, hasProps |-> hasProps, hasGeometry |-> hasGeometry]

UsgsResponses ==
    {Failure("transport"), Failure("http"), Failure("badjson"),
     Failure("malformed"),
     [kind |-> "ok", data |-> [has |-> FALSE, list |-> <<>>]],
     [kind |-> "ok", data |-> [has |-> TRUE, list |->
          <<Feature(2, 72, PlainText, TRUE, 200, TRUE, TRUE),
            Feature(1, 65, ForeignText, TRUE, 10, TRUE, TRUE)>>]],
     [kind |-> "ok", data |-> [has |-> TRUE,
                               list |->
          <<Feature(3, 44, PlainText, TRUE, 10, TRUE, TRUE),
            Feature(4, 65, PlainText, TRUE, 10, TRUE, FALSE),
            Feature(5, 60, PlainText, TRUE, 1440, TRUE, TRUE),
            Feature(6, 60, PlainText, FALSE, 0, TRUE, TRUE)>>]]}

Item(title, hasTitle, desc, kw, breakingWord, pub, pubAge) ==
    [title |-> title, hasTitle |-> hasTitle, desc |-> desc, kw |-> kw,
     breakingWord |-> breakingWord, pub |-> pub, pubAge |-> pubAge]

Attempt(kind, items) == [kind |-> kind, items |-> items]

AllFail(kind) == [k \in Range(feedKeys) |-> <<Attempt(kind, <<>>), Attempt(kind, <<>>)>>]

RssWorlds ==
    {AllFail("timeout"), AllFail("http"),
     [AllFail("empty") EXCEPT !["bbc"] = <<Attempt("ok", <<>>), Attempt("ok",
            <<Item(EnglishText, TRUE, EnglishText, {"high"}, TRUE, "valid", 10)>>)>>],
     [AllFail("parsererror") EXCEPT
         !["reuters"] = <<Attempt("http", <<>>), Attempt("ok",
            <<Item(EnglishText, TRUE, ForeignText, {"medium"}, FALSE, "valid", 1439),
              Item(ForeignText, TRUE, EnglishText, {"critical"}, FALSE, "valid", 10),
              Item(EnglishText, TRUE, EnglishText, {}, FALSE, "unparseable", 0),
              Item(EmptyText, TRUE, EnglishText, {}, TRUE, "valid", 10)>>)>>],
     [AllFail("timeout") EXCEPT
         !["bbc"] = <<Attempt("timeout", <<>>), Attempt("ok",
            <<Item(EnglishText, TRUE, EnglishText, {}, FALSE, "missing", 0),
              Item(EnglishText, TRUE, EnglishText, {"high"}, TRUE, "valid", 10)>>)>>,
         !["npr"] = <<Attempt("ok",
            <<Item(EnglishText, TRUE, EmptyText, {"critical", "high"}, TRUE, "valid", 200)>>),
           Attempt("ok",
            <<Item(EnglishText, TRUE, EnglishText, {}, FALSE, "missing", 0)>>)>>]}

gdeltDown(resp) == resp.kind # "ok"
usgsDown(resp) == resp.kind # "ok"
rssDown(world) ==
    \A k \in Range(feedKeys) : \A p \in 1..Len(CORS_PROXIES) : world[k][p].kind # "ok"

TickSteps == {4, 5}

(***************************************************************************)
(* The aggregator (aggregatorService.js).                                  *)
(***************************************************************************)
HealthRecord(status, lastCheck, eventCount, error) ==
    [status |-> status, lastCheck |-> lastCheck, eventCount |-> eventCount,
     error |-> error]

Outcome(status, value, down) == [status |-> status, value |-> value, down |-> down]

TypeOK ==
    /\ now \in 1..MaxNow
    /\ inflight \in [BOOLEAN -> 0..MaxInFlight]
    /\ lastFetchTime \in 0..MaxNow
    /\ faults \subseteq {"reject", "throw", "first"}
    /\ ret.kind \in {"none", "cached", "fresh", "stale", "accessor"}

\* no call of the three functions is under way
NoCorr == [input |-> <<>>, previous |-> <<>>, output |-> <<>>, runs |-> 0]
NoSev == [called |-> FALSE, title |-> {}, description |-> {},
          isBreaking |-> FALSE, isRecent |-> FALSE, keywordScore |-> 0,
          score |-> 0]
NoFeed == [called |-> FALSE, feedNo |-> 1, attempts |-> <<>>, proxy |-> 1,
           tried |-> <<>>, returned |-> FALSE, events |-> <<>>]

\* what a caller holds: sameList, the list it was handed last is the array
\* cachedEvents refers to; health, the map getFeedHealth gave it, and
\* sameRecords, the sources whose record in that map is the object
\* feedHealth refers to
NoReader == [sameList |-> FALSE, hasHealth |-> FALSE,
             health |-> [s \in Sources |-> HealthRecord("unknown", NULL, 0, "")],
             sameRecords |-> {}]

InitPipeline(fm) ==
    /\ now = 1
    /\ cachedEvents = <<>>
    /\ lastFetchTime = NULL
    /\ feedHealth = [s \in Sources |-> HealthRecord("unknown", NULL, 0, "")]
    /\ inflight = [f \in BOOLEAN |-> 0]
    /\ settled = [s \in Sources |-> Outcome("none", <<>>, FALSE)]
    /\ ret = [kind |-> "none", list |-> <<>>]
    /\ faults = fm
    /\ reader = NoReader

NoLoc == [called |-> FALSE, text |-> TextOf(TRUE, {}), result |-> NoLocation]

\* the feed and the map before the first render
NoView == [filterLevel |-> "all", events |-> <<>>, cards |-> {}, layers |-> {}]

\* main.js before init: owner is the trigger whose refresh is under way,
\* outcome what the last call of refreshEvents did, timerOn whether
\* setInterval(refreshEvents, REFRESH_INTERVAL) has been reached
NoApp == [isLoading |-> FALSE, events |-> <<>>, owner |-> "none",
          outcome |-> "none", initCalled |-> FALSE, timerOn |-> FALSE]

\* every call but the named one is idle
CallsIdleBut(which) ==
    /\ IF which = "corr" THEN TRUE ELSE corr = NoCorr
    /\ IF which = "sev" THEN TRUE ELSE sev = NoSev
    /\ IF which = "feed" THEN TRUE ELSE feed = NoFeed
    /\ IF which = "loc" THEN TRUE ELSE loc = NoLoc
    /\ IF which = "view" THEN TRUE ELSE view = NoView
    /\ IF which = "app" THEN TRUE ELSE app = NoApp

InitWith(fm) ==
    /\ CallsIdleBut("none")
    /\ InitPipeline(fm)

Init == InitWith({})

Tick ==
    /\ \E d \in TickSteps :
          /\ now + d <= MaxNow
          /\ now' = now + d
    /\ UNCHANGED <<cachedEvents, lastFetchTime, feedHealth, inflight, settled,
                   ret, faults, reader>>
    /\ UNCHANGED callVars

\* the calls suspended at the await of fetchAllEvents, by their forceRefresh
suspended == inflight[TRUE] + inflight[FALSE]

\* variant: the age of the cache is not looked at
cacheValid_NoExpiry ==
    /\ Len(cachedEvents) > 0
    /\ lastFetchTime # NULL

cacheValid ==
    /\ Len(cachedEvents) > 0
    /\ lastFetchTime # NULL
    /\ now - lastFetchTime < CACHE_DURATION_MS

\* fetchAllEvents up to its await: serve the cache, or start the three
\* adapters and suspend
fetchAllEvents(forceRefresh) ==
    IF ~forceRefresh /\ cacheValid
    THEN /\ ret' = [kind |-> "cached", list |-> cachedEvents]
         /\ reader' = [reader EXCEPT !.sameList = TRUE]
         /\ UNCHANGED <<now, cachedEvents, lastFetchTime, feedHealth, inflight,
                        settled, faults>>
    ELSE /\ suspended < MaxInFlight
         /\ inflight' = [inflight EXCEPT ![forceRefresh] = @ + 1]
         /\ UNCHANGED <<now, cachedEvents, lastFetchTime, feedHealth, settled,
                        ret, faults, reader>>

Call ==
    /\ \E forceRefresh \in BOOLEAN : fetchAllEvents(forceRefresh)
    /\ UNCHANGED callVars

\* variant: a fulfilled adapter counts as healthy whatever it delivered
healthOf_AlwaysHealthy(o, t) ==
    IF o.status = "fulfilled"
    THEN HealthRecord("healthy", t, Len(o.value), "")
    ELSE HealthRecord("error", t, 0, "Unknown error")

healthOf(o, t) ==
    IF o.status = "fulfilled"
    THEN HealthRecord(IF Len(o.value) > 0 THEN "healthy" ELSE "empty", t,
                      Len(o.value), "")
    ELSE HealthRecord("error", t, 0, "Unknown error")

valueOf(o) == IF o.status = "fulfilled" THEN o.value ELSE <<>>

\* variant: one rejection discards every result (an all-or-nothing join)
mergeEvents_AllOrNothing(results) ==
    IF \E s \in Sources : results[s].status # "fulfilled" THEN <<>>
    ELSE valueOf(results["gdelt"]) \o valueOf(results["usgs"]) \o valueOf(results["rss"])

mergeEvents(results) ==
    valueOf(results["gdelt"]) \o valueOf(results["usgs"]) \o valueOf(results["rss"])

\* variant: the catch block returns an empty list
staleResult_Empty == <<>>

\* the catch block: return cachedEvents
staleResult == cachedEvents

\* variant: the new events are added to the cached ones
updateCache_Merge(processedEvents) == cachedEvents \o processedEvents

\* cachedEvents = processedEvents
updateCache(processedEvents) == processedEvents

phaseOf(throwAt) ==
    CASE throwAt = "gdelt" -> 1
      [] throwAt = "usgs" -> 2
      [] throwAt = "rss" -> 3
      [] OTHER -> 4

sourceNo(s) == CHOOSE i \in 1..3 : SourceOrder[i] = s

\* fetchAllEvents from the await on, for the settled results of the three
\* adapter promises; throwAt names the statement group that raises
resume(results, throwAt) ==
    /\ feedHealth' = [s \in Sources |->
                        IF sourceNo(s) < phaseOf(throwAt)
                        THEN healthOf(results[s], now) ELSE feedHealth[s]]
    /\ settled' = results
    /\ reader' = [reader EXCEPT
                     !.sameList = TRUE,
                     !.sameRecords = {s \in @ : sourceNo(s) >= phaseOf(throwAt)}]
    /\ IF throwAt = "none"
       THEN \E allEvents \in {mergeEvents(results)} :
              \E englishEvents \in {filterEnglishOnly(allEvents)} :
                \E recentEvents \in {filterLast24Hours(englishEvents, now)} :
                  \E processedEvents \in {processEvents(recentEvents, now)} :
                      /\ cachedEvents' = updateCache(processedEvents)
                      /\ lastFetchTime' = now
                      /\ ret' = [kind |-> "fresh", list |-> processedEvents]
       ELSE /\ ret' = [kind |-> "stale", list |-> staleResult]
            /\ UNCHANGED <<cachedEvents, lastFetchTime>>

ThrowPoints ==
    IF "throw" \in faults
    THEN {"none", "usgs", "process"}
    ELSE {"none"}

Rejected == Outcome("rejected", <<>>, TRUE)

FaultOutcomes == IF "reject" \in faults THEN {Rejected} ELSE {}

\* where exceptions are explored, each adapter answers with a failure or
\* with its first payload; where the callers of the aggregator are
\* explored ("first"), with its first payload
Replies(responses) ==
    IF "throw" \in faults
    THEN {r \in responses : r.kind = "transport" \/ (r.kind = "ok" /\ Len(r.data.list) = 2)}
    ELSE IF "first" \in faults
    THEN {r \in responses : r.kind = "ok" /\ Len(r.data.list) = 2}
    ELSE responses

RssReplies ==
    IF faults \cap {"throw", "first"} # {}
    THEN {w \in RssWorlds : w["bbc"][1].kind = "timeout"}
    ELSE RssWorlds

\* the promise of an async function: rejected when the function threw
settle(c, down) ==
    Outcome(IF c.threw THEN "rejected" ELSE "fulfilled", c.value, down)

\* the promise of each adapter as Promise.allSettled reports it
GdeltOutcomes ==
    {settle(fetchGDELTEvents(g, now), gdeltDown(g)) : g \in Replies(GdeltResponses)}
        \cup FaultOutcomes
UsgsOutcomes ==
    {settle(fetchMajorEarthquakes(u, now), usgsDown(u)) : u \in Replies(UsgsResponses)}
        \cup FaultOutcomes
RssOutcomes ==
    {settle(fetchAllRSSFeeds(w, now), rssDown(w)) : w \in RssReplies}
        \cup FaultOutcomes

\* the three adapter promises of a suspended call settle and it resumes
settleAndResume(forceRefresh) ==
    /\ inflight[forceRefresh] > 0
    /\ inflight' = [inflight EXCEPT ![forceRefresh] = @ - 1]
    /\ \E go \in GdeltOutcomes, uo \in UsgsOutcomes, ro \in RssOutcomes,
          throwAt \in ThrowPoints :
          resume([gdelt |-> go, usgs |-> uo, rss |-> ro], throwAt)
    /\ UNCHANGED <<now, faults>>

Join ==
    /\ \E f \in BOOLEAN : settleAndResume(f)
    /\ UNCHANGED callVars

clearCache ==
    /\ cachedEvents' = <<>>
    /\ lastFetchTime' = NULL
    /\ reader' = [reader EXCEPT !.sameList = FALSE]
    /\ UNCHANGED <<now, feedHealth, inflight, settled, ret, faults>>
    /\ UNCHANGED callVars

Next == Tick \/ Call \/ Join \/ clearCache

Spec == Init /\ [][Next]_vars
SpecReject == InitWith({"reject"}) /\ [][Next]_vars
SpecThrow == InitWith({"throw"}) /\ [][Next]_vars

(***************************************************************************)
(* The aggregator with a caller that keeps what it was handed and writes   *)
(* to it.                                                                  *)
(***************************************************************************)
getCachedEvents ==
    /\ ret' = [kind |-> "accessor", list |-> cachedEvents]
    /\ reader' = [reader EXCEPT !.sameList = TRUE]
    /\ UNCHANGED <<now, cachedEvents, lastFetchTime, feedHealth, inflight,
                   settled, faults>>
    /\ UNCHANGED callVars

\* { ...feedHealth }: a new map of the same three records
getFeedHealth ==
    /\ reader' = [reader EXCEPT !.hasHealth = TRUE, !.health = feedHealth,
                                !.sameRecords = Sources]
    /\ UNCHANGED <<now, cachedEvents, lastFetchTime, feedHealth, inflight,
                   settled, ret, faults>>
    /\ UNCHANGED callVars

\* the caller removes the last event of the list it holds (events.pop())
mutateList ==
    /\ ret.kind # "none"
    /\ Len(ret.list) > 0
    /\ LET shorter == SubSeq(ret.list, 1, Len(ret.list) - 1)
       IN /\ ret' = [ret EXCEPT !.list = shorter]
          /\ cachedEvents' = IF reader.sameList THEN shorter ELSE cachedEvents
    /\ UNCHANGED <<now, lastFetchTime, feedHealth, inflight, settled, faults,
                   reader>>
    /\ UNCHANGED callVars

\* the caller writes a field of a record of the map it holds
\* (health.gdelt.eventCount = 0)
mutateHealthRecord ==
    /\ reader.hasHealth
    /\ \E s \in {"gdelt"} :
          /\ reader.health[s].eventCount # 0
          /\ reader' = [reader EXCEPT !.health[s].eventCount = 0]
          /\ feedHealth' = IF s \in reader.sameRecords
                           THEN [feedHealth EXCEPT ![s].eventCount = 0]
                           ELSE feedHealth
    /\ UNCHANGED <<now, cachedEvents, lastFetchTime, inflight, settled, ret,
                   faults>>
    /\ UNCHANGED callVars

NextReader ==
    \/ Tick \/ Call \/ Join \/ clearCache
    \/ getCachedEvents \/ getFeedHealth \/ mutateList \/ mutateHealthRecord

SpecReader == InitWith({"first"}) /\ [][NextReader]_vars

(***************************************************************************)
(* The story correlator called on a list of stories (getEvents calls it on *)
(* the stories of the module), and called again on its own result.  A      *)
(* story carries the fields correlateStories reads and writes.             *)
(***************************************************************************)
MaxStories == 3
MaxRuns == 2

Story(id, source, keywords, importance) ==
    [id |-> id, source |-> source, keywords |-> keywords,
     importance |-> importance, correlatedWith |-> <<>>, sourceCount |-> 1]

StorySources == {"Reuters", "BBC World", "AP News"}

\* keyword lists whose pairwise similarities fall on both sides of the
\* threshold: 0/0, 0, 1/9, 2/7, 3/10, 1
StoryKeywords == {{}, {2, 3, 7}, 1..6, 4..10}

StoryImportances == {2, 5}

StoryLists ==
    UNION {[1..n -> {Story(0, s, k, m) : s \in StorySources, k \in StoryKeywords,
                                        m \in StoryImportances}]
              : n \in 0..MaxStories}

\* the ids of the stories of a list are all different: evt-001, evt-002, ...
numbered(list) == [i \in 1..Len(list) |-> [list[i] EXCEPT !.id = i]]

InitCorrelate ==
    /\ \E list \in StoryLists : corr = [NoCorr EXCEPT !.input = numbered(list)]
    /\ CallsIdleBut("corr")
    /\ InitPipeline({})

\* getEvents: correlateStories on the stories
getEvents ==
    /\ corr.runs = 0
    /\ corr' = [corr EXCEPT !.output = correlateStories(corr.input),
                            !.runs = 1]
    /\ UNCHANGED <<sev, feed, loc, view, app>>
    /\ UNCHANGED pipelineVars

\* correlateStories on the list the previous call returned
correlateAgain ==
    /\ corr.runs >= 1
    /\ corr.runs < MaxRuns
    /\ corr' = [corr EXCEPT !.previous = corr.output,
                            !.output = correlateStories(corr.output),
                            !.runs = @ + 1]
    /\ UNCHANGED <<sev, feed, loc, view, app>>
    /\ UNCHANGED pipelineVars

NextCorrelate == getEvents \/ correlateAgain

SpecCorrelate == InitCorrelate /\ [][NextCorrelate]_vars

(***************************************************************************)
(* One call of calculateSeverity(title, description, isBreaking, isRecent). *)
(* title and description are given by the tiers of SEVERITY_KEYWORDS of    *)
(* which they contain a keyword.                                           *)
(***************************************************************************)
Tiers == {"critical", "high", "medium"}

InitSeverity ==
    /\ \E title \in SUBSET Tiers, description \in SUBSET Tiers,
          isBreaking \in BOOLEAN, isRecent \in BOOLEAN :
          sev = [NoSev EXCEPT !.title = title, !.description = description,
                              !.isBreaking = isBreaking, !.isRecent = isRecent]
    /\ CallsIdleBut("sev")
    /\ InitPipeline({})

\* keywordScore is the value of score when the keyword loops are done
classify ==
    /\ ~sev.called
    /\ LET kw == sev.title \cup sev.description
       IN sev' = [sev EXCEPT
                     !.called = TRUE,
                     !.keywordScore = keywordScore(kw),
                     !.score = calculateSeverity(kw, sev.isBreaking, sev.isRecent)]
    /\ UNCHANGED <<corr, feed, loc, view, app>>
    /\ UNCHANGED pipelineVars

NextSeverity == classify

SpecSeverity == InitSeverity /\ [][NextSeverity]_vars

(***************************************************************************)
(* One call of fetchRSSFeed(feedKey), proxy by proxy.  feed.attempts is    *)
(* what each proxy answers for the feed, feed.proxy the position of the    *)
(* loop over CORS_PROXIES, feed.tried the proxies fetched so far.          *)
(***************************************************************************)
FeedAttempts ==
    {Attempt("timeout", <<>>), Attempt("http", <<>>), Attempt("badjson", <<>>),
     Attempt("empty", <<>>), Attempt("parsererror", <<>>),
     Attempt("notxml", <<>>), Attempt("ok", <<>>), Attempt("ok",
        <<Item(EnglishText, TRUE, EnglishText, {"high"}, TRUE, "valid", 10)>>),
     Attempt("ok",
        <<Item(EnglishText, TRUE, EnglishText, {}, FALSE, "missing", 0),
          Item(EnglishText, TRUE, EnglishText, {"high"}, TRUE, "valid", 10)>>)}

InitFeed ==
    /\ \E feedNo \in 1..Len(feedKeys),
          attempts \in [1..Len(CORS_PROXIES) -> FeedAttempts] :
          feed = [NoFeed EXCEPT !.feedNo = feedNo, !.attempts = attempts]
    /\ CallsIdleBut("feed")
    /\ InitPipeline({})

\* fetchRSSFeed is entered with the key of a configured feed
enterFetchRSSFeed ==
    /\ ~feed.called
    /\ feed' = [feed EXCEPT !.called = TRUE, !.proxy = 1]
    /\ UNCHANGED <<corr, sev, loc, view, app>>
    /\ UNCHANGED pipelineVars

\* one pass of the loop: the try block returns, or the catch continues
tryProxy ==
    /\ feed.called
    /\ ~feed.returned
    /\ feed.proxy <= Len(CORS_PROXIES)
    /\ LET attempt == feed.attempts[feed.proxy]
       IN feed' = IF proxySucceeds(attempt)
                  THEN [feed EXCEPT
                           !.tried = Append(@, CORS_PROXIES[feed.proxy]),
                           !.returned = TRUE,
                           !.events = parseRSSXML(attempt.items, feed.feedNo, now)]
                  ELSE [feed EXCEPT
                           !.tried = Append(@, CORS_PROXIES[feed.proxy]),
                           !.proxy = @ + 1]
    /\ UNCHANGED <<corr, sev, loc, view, app>>
    /\ UNCHANGED pipelineVars

\* the loop is over: 'All proxies failed', return []
allProxiesFailed ==
    /\ feed.called
    /\ ~feed.returned
    /\ feed.proxy > Len(CORS_PROXIES)
    /\ feed' = [feed EXCEPT !.returned = TRUE, !.events = <<>>]
    /\ UNCHANGED <<corr, sev, loc, view, app>>
    /\ UNCHANGED pipelineVars

NextFeed == enterFetchRSSFeed \/ tryProxy \/ allProxiesFailed

SpecFeed == InitFeed /\ [][NextFeed]_vars

(***************************************************************************)
(* One call of extractLocation(text).  A key that holds another key as a   *)
(* whole word ('east asia', 'asia') is not found without it.               *)
(***************************************************************************)
KeysOf(table) == {table[i].key : i \in 1..Len(table)}

AliasesOf(country) == {country.aliases[i] : i \in 1..Len(country.aliases)}

\* the keys and aliases of the three tables
Words ==
    KeysOf(COUNTRIES) \cup KeysOf(MAJOR_CITIES) \cup KeysOf(REGIONS)
        \cup UNION {AliasesOf(COUNTRIES[i]) : i \in 1..Len(COUNTRIES)}

Texts ==
    {TextOf(TRUE, {})} \cup
    {TextOf(FALSE, words) :
        words \in {w \in SUBSET Words : "east asia" \in w => "asia" \in w}}

InitLocation ==
    /\ \E text \in Texts : loc = [NoLoc EXCEPT !.text = text]
    /\ CallsIdleBut("loc")
    /\ InitPipeline({})

extract ==
    /\ ~loc.called
    /\ loc' = [loc EXCEPT !.called = TRUE, !.result = extractLocation(loc.text)]
    /\ UNCHANGED <<corr, sev, feed, view, app>>
    /\ UNCHANGED pipelineVars

NextLocation == extract

SpecLocation == InitLocation /\ [][NextLocation]_vars

(***************************************************************************)
(* The feed and the map of the dashboard: the events of a refresh are      *)
(* rendered, the user clicks a filter button.  The events have local       *)
(* locations (markers).                                                    *)
(***************************************************************************)
MaxViewEvents == 2

FilterLevels ==
    {"all", "critical", "high", "medium", "low", "earthquake", "developing"}

ViewEvents ==
    {ViewEvent("story", "BBC", 5, "none", FALSE, "valid"),
     ViewEvent("story", "Reuters", 4, "none", FALSE, "valid"),
     ViewEvent("story", "USGS", 3, "earthquake", FALSE, "valid"),
     ViewEvent("story", "GDELT", 0, "none", FALSE, "valid"),
     ViewEvent("Untitled", "BBC", 2, "none", FALSE, "valid"),
     ViewEvent("TBD", "BBC", 5, "none", FALSE, "valid"),
     ViewEvent("story", "Unknown", 4, "none", FALSE, "valid"),
     ViewEvent("story", "BBC", 3, "none", TRUE, "valid"),
     ViewEvent("story", "BBC", 5, "none", FALSE, "global"),
     ViewEvent("story", "BBC", 2, "none", FALSE, "tbd")}

ViewLists == UNION {[1..n -> ViewEvents] : n \in 0..MaxViewEvents}

InitView ==
    /\ view = NoView
    /\ CallsIdleBut("view")
    /\ InitPipeline({})

\* refreshEvents of main.js from the return of fetchAllEvents on: the map is
\* emptied, worldMap.addEvents(events), newsFeed.render(events)
render ==
    /\ \E events \in ViewLists :
          view' = [view EXCEPT
                     !.events = events,
                     !.layers = addEvents(events),
                     !.cards = applyFilter(events, view.filterLevel)]
    /\ UNCHANGED <<corr, sev, feed, loc, app>>
    /\ UNCHANGED pipelineVars

\* the click listener of a filter button, and handleFilterChange of main.js
clickFilter ==
    /\ \E filterLevel \in FilterLevels :
          view' = [view EXCEPT
                     !.filterLevel = filterLevel,
                     !.cards = applyFilter(view.events, filterLevel),
                     !.layers = filterMarkers(view.events, filterLevel)]
    /\ UNCHANGED <<corr, sev, feed, loc, app>>
    /\ UNCHANGED pipelineVars

NextView == render \/ clickFilter

SpecView == InitView /\ [][NextView]_vars

(***************************************************************************)
(* The application (main.js): init, the refresh timer and the manual       *)
(* refresh (window.refreshOSINT) call refreshEvents, the only caller of    *)
(* fetchAllEvents.  What is drawn from the events is followed in SpecView. *)
(***************************************************************************)
Triggers == {"init", "timer", "manual"}

\* variant: the flag is reset at the end of the try block, not in finally
isLoadingAfter_NoFinally(threw) == threw

\* finally { isLoading = false }
isLoadingAfter(threw) == FALSE

\* refreshEvents up to its await
refreshEvents(trigger) ==
    /\ CASE trigger = "init" -> ~app.initCalled
         [] trigger = "timer" -> app.timerOn
         [] OTHER -> TRUE
    /\ IF app.isLoading
       THEN /\ app' = [app EXCEPT
                         !.outcome = "skipped",
                         !.initCalled = @ \/ trigger = "init",
                         !.timerOn = @ \/ trigger = "init"]
            /\ UNCHANGED pipelineVars
       ELSE /\ app' = [app EXCEPT
                         !.isLoading = TRUE,
                         !.owner = trigger,
                         !.outcome = "started",
                         !.initCalled = @ \/ trigger = "init"]
            /\ fetchAllEvents(TRUE)
    /\ UNCHANGED <<corr, sev, feed, loc, view>>

triggerRefresh == \E trigger \in Triggers : refreshEvents(trigger)

\* refreshEvents from the await on: events is assigned, the map and the
\* feed are redrawn (which may throw), finally the flag is reset; init then
\* goes on to setInterval
refreshDone ==
    /\ app.isLoading
    /\ settleAndResume(TRUE)
    /\ \E threw \in BOOLEAN :
          app' = [app EXCEPT
                    !.events = ret'.list,
                    !.isLoading = isLoadingAfter(threw),
                    !.outcome = IF threw THEN "threw" ELSE "rendered",
                    !.owner = "none",
                    !.timerOn = @ \/ app.owner = "init"]
    /\ UNCHANGED <<corr, sev, feed, loc, view>>

InitApp ==
    /\ app = NoApp
    /\ CallsIdleBut("app")
    /\ InitPipeline({"first"})

NextApp == Tick \/ triggerRefresh \/ refreshDone

SpecApp == InitApp /\ [][NextApp]_vars

\* the three requests of a refresh end (by their answer, by a network error
\* or by a timeout), so a suspended refreshEvents resumes
SpecAppLive == SpecApp /\ WF_vars(refreshDone)

(***************************************************************************)
(* Vocabulary of the properties.                                           *)
(***************************************************************************)
\* a suspended fetchAllEvents call resumes in this step
JoinStep ==
    inflight'[TRUE] + inflight'[FALSE] = inflight[TRUE] + inflight[FALSE] - 1

\* the events the three adapters delivered, in the order they are merged
DeliveredOf(st) == st["gdelt"].value \o st["usgs"].value \o st["rss"].value

Listed(list, e) == \E k \in 1..Len(list) : list[k].id = e.id

PosOf(list, e) == CHOOSE k \in 1..Len(list) : list[k].id = e.id

TitleReadsEnglish(e) ==
    ~e.title.empty /\ ~e.title.nonLatin /\ e.title.funcWord

YoungerThanADay(e, t) ==
    e.timestamp # InvalidDate /\ t - e.timestamp < MAX_AGE_MS

PassesFilters(e, t) ==
    /\ e.eventType = "earthquake" \/ TitleReadsEnglish(e)
    /\ YoungerThanADay(e, t)

\* a comes strictly before b under (breaking first, importance descending,
\* timestamp descending)
KeyBefore(a, b) ==
    \/ a.isBreaking /\ ~b.isBreaking
    \/ a.isBreaking = b.isBreaking /\ a.importance > b.importance
    \/ a.isBreaking = b.isBreaking /\ a.importance = b.importance
          /\ a.timestamp > b.timestamp

(***************************************************************************)
(* C1 (as stated): once a refresh has completed, a fetchAll(false) made    *)
(* less than 5 minutes after it never starts the adapters, whatever the    *)
(* cached list is.                                                         *)
(***************************************************************************)
C1_Original ==
    [][inflight'[FALSE] = inflight[FALSE] + 1
          => ~(lastFetchTime # NULL /\ now - lastFetchTime < CACHE_DURATION_MS)]_vars

(***************************************************************************)
(* C1 (amended): while the cache holds a non-empty list fetched less than  *)
(* 5 minutes ago, fetchAll(false) starts no adapter, and a call served     *)
(* from the cache returns the cached list and changes nothing else.        *)
(***************************************************************************)
C1_CacheServed ==
    [][/\ inflight'[FALSE] = inflight[FALSE] + 1
            => ~(/\ Len(cachedEvents) > 0
                 /\ lastFetchTime # NULL
                 /\ now - lastFetchTime < CACHE_DURATION_MS)
       /\ (ret' # ret /\ ret'.kind = "cached")
            => /\ Len(cachedEvents) > 0
               /\ lastFetchTime # NULL
               /\ now - lastFetchTime < CACHE_DURATION_MS
               /\ ret'.list = cachedEvents
               /\ cachedEvents' = cachedEvents
               /\ lastFetchTime' = lastFetchTime
               /\ inflight' = inflight
               /\ feedHealth' = feedHealth
               /\ settled' = settled]_vars

C1_Witness ==
    /\ ret.kind = "cached"
    /\ Len(ret.list) > 0
    /\ ret.list = cachedEvents
    /\ lastFetchTime # NULL
    /\ now > lastFetchTime

(***************************************************************************)
(* C2: whichever adapter promises reject, the refresh completes, the       *)
(* cache and its timestamp are updated, and every event of a fulfilled     *)
(* adapter that passes the filters is in the result.                       *)
(***************************************************************************)
C2_SettleAll ==
    [][JoinStep
          => /\ ret'.kind = "fresh"
             /\ cachedEvents' = ret'.list
             /\ lastFetchTime' = now
             /\ \A s \in Sources :
                   settled'[s].status = "fulfilled"
                      => \A e \in Range(settled'[s].value) :
                            PassesFilters(e, now) => Listed(ret'.list, e)]_vars

C2_Witness ==
    /\ ret.kind = "fresh"
    /\ settled["gdelt"].status = "rejected"
    /\ settled["rss"].status = "rejected"
    /\ settled["usgs"].status = "fulfilled"
    /\ Len(settled["usgs"].value) > 0
    /\ Len(ret.list) > 0
    /\ cachedEvents = ret.list
    /\ lastFetchTime = now

(***************************************************************************)
(* C3 (as stated): a forced refresh in which the network fails for all     *)
(* three adapters, with a non-empty cache, returns the previous cache and  *)
(* sets the health status of every source to "error".                      *)
(***************************************************************************)
C3_Original ==
    [][(/\ inflight'[TRUE] = inflight[TRUE] - 1
        /\ Len(cachedEvents) > 0
        /\ \A s \in Sources : settled'[s].down)
          => /\ ret'.list = cachedEvents
             /\ \A s \in Sources : feedHealth'[s].status = "error"]_vars

(***************************************************************************)
(* C4: when an exception is raised after the await, the call returns the   *)
(* cached list, and the cached list and its timestamp stay as they were.   *)
(***************************************************************************)
C4_StaleOnThrow ==
    [][(JoinStep /\ ret'.kind = "stale")
          => /\ ret'.list = cachedEvents
             /\ cachedEvents' = cachedEvents
             /\ lastFetchTime' = lastFetchTime]_vars

C4_Witness ==
    /\ ret.kind = "stale"
    /\ Len(ret.list) > 0
    /\ ret.list = cachedEvents
    /\ lastFetchTime # NULL
    /\ \E s \in Sources : feedHealth[s].lastCheck > lastFetchTime

C7_SortedStable ==
    [][JoinStep
          => LET L == ret'.list
                 D == DeliveredOf(settled')
             IN \A i, j \in 1..Len(L) :
                   i < j => /\ ~KeyBefore(L[j], L[i])
                            /\ ~KeyBefore(L[i], L[j])
                                  => PosOf(D, L[i]) < PosOf(D, L[j])]_vars

C7_Witness ==
    /\ ret.kind = "fresh"
    /\ Len(ret.list) >= 3
    /\ \E i, j \in 1..Len(ret.list) :
          /\ i < j
          /\ ~KeyBefore(ret.list[i], ret.list[j])
          /\ ~KeyBefore(ret.list[j], ret.list[i])
    /\ \E i, j \in 1..Len(ret.list) :
          /\ i < j
          /\ PosOf(DeliveredOf(settled), ret.list[i])
                > PosOf(DeliveredOf(settled), ret.list[j])

C9_Original ==
    [][ret' # ret
          => \A e \in Range(ret'.list) :
                e.timestamp # InvalidDate /\ now - e.timestamp <= MAX_AGE_MS]_vars

(***************************************************************************)
(* C9 (amended): a list produced by a refresh holds only events with a     *)
(* valid timestamp less than 24 hours older than the refresh; a list       *)
(* served from the cache holds only events less than 24 hours plus the     *)
(* time-to-live older than the moment it is returned.                      *)
(***************************************************************************)
C9_RecentAtRefresh ==
    [][/\ JoinStep
            => /\ \A e \in Range(ret'.list) : YoungerThanADay(e, now)
               /\ \A e \in Range(DeliveredOf(settled')) :
                     e.timestamp = InvalidDate => ~Listed(ret'.list, e)
       /\ (ret' # ret /\ ret'.kind = "cached")
            => \A e \in Range(ret'.list) :
                  /\ e.timestamp # InvalidDate
                  /\ now - e.timestamp < MAX_AGE_MS + CACHE_DURATION_MS]_vars

C9_Witness ==
    /\ ret.kind = "cached"
    /\ \E e \in Range(ret.list) : now - e.timestamp > MAX_AGE_MS
    /\ \E e \in Range(DeliveredOf(settled)) : e.timestamp = InvalidDate

(***************************************************************************)
(* C10: every event an adapter delivers, and every event of a returned or  *)
(* cached list, has an importance in 1..5.                                 *)
(***************************************************************************)
C10_ImportanceRange ==
    /\ \A s \in Sources : \A e \in Range(settled[s].value) : e.importance \in 1..5
    /\ \A e \in Range(ret.list) : e.importance \in 1..5
    /\ \A e \in Range(cachedEvents) : e.importance \in 1..5

C10_Witness ==
    /\ ret.kind = "fresh"
    /\ \E e \in Range(DeliveredOf(settled)) :
          /\ e.importance = 5
          /\ e.isBreaking
          /\ e.timestamp > now - THREE_HOURS_MS
          /\ \E k \in 1..Len(ret.list) :
                ret.list[k].id = e.id /\ ret.list[k].importance = 5
    /\ \E e \in Range(DeliveredOf(settled)) :
          /\ e.importance = 4
          /\ \E k \in 1..Len(ret.list) :
                ret.list[k].id = e.id /\ ret.list[k].importance = 5

(***************************************************************************)
(* Vocabulary of the correlator properties.                                *)
(***************************************************************************)
Stories == 1..Len(corr.input)

\* the ids a story lists as correlated
Linked(e) == Range(e.correlatedWith)

\* |intersection| / |union| of two keyword sets is at least 3/10
JaccardAtLeastThreshold(a, b) ==
    /\ Cardinality(a.keywords \cup b.keywords) > 0
    /\ 10 * Cardinality(a.keywords \cap b.keywords)
          >= 3 * Cardinality(a.keywords \cup b.keywords)

(***************************************************************************)
(* C11 (as stated): correlation only raises importance.  For every story   *)
(* of the list given to correlateStories, its importance in the result is  *)
(* greater than or equal to its importance in the input.                   *)
(***************************************************************************)
C11_Original ==
    corr.runs = 1 =>
        \A i \in Stories : corr.output[i].importance >= corr.input[i].importance

(***************************************************************************)
(* C12 (as stated): in the result of correlateStories every story has      *)
(* sourceCount >= 1, and sourceCount is 1 plus the number of distinct      *)
(* sources among the stories it is correlated with.                        *)
(***************************************************************************)
C12_Original ==
    corr.runs = 1 =>
        \A i \in Stories :
            LET e == corr.output[i]
                outlets == {corr.output[k].source :
                               k \in {k \in Stories : corr.output[k].id \in Linked(e)}}
            IN /\ e.sourceCount >= 1
               /\ e.sourceCount = 1 + Cardinality(outlets)

(***************************************************************************)
(* C13: correlateStories never links two stories of the same source.  For  *)
(* every story e of a result and every id in e.correlatedWith, the story   *)
(* with that id has a source different from e.source, whatever the         *)
(* similarity of their keywords.                                           *)
(***************************************************************************)
C13_NoSameSourceEdge ==
    corr.runs >= 1 =>
        \A i \in Stories, k \in Stories :
            corr.output[k].id \in Linked(corr.output[i])
                => corr.output[k].source # corr.output[i].source

\* two stories of one source with the same non-empty keywords stay
\* unlinked, next to a story of another source that both are linked to
C13_Witness ==
    /\ corr.runs = 1
    /\ Len(corr.input) = 3
    /\ corr.input[1].source = corr.input[2].source
    /\ corr.input[1].keywords = corr.input[2].keywords
    /\ corr.input[1].keywords # {}
    /\ corr.input[3].source # corr.input[1].source
    /\ corr.output[1].correlatedWith = <<3>>
    /\ corr.output[2].correlatedWith = <<3>>
    /\ corr.output[3].correlatedWith = <<1, 2>>

(***************************************************************************)
(* C14: correlateStories is idempotent on the correlatedWith sets.  Called *)
(* on its own result it gives every story the same correlatedWith set and  *)
(* the same sourceCount as the first call did; no set grows.               *)
(***************************************************************************)
C14_Idempotent ==
    corr.runs >= 2 =>
        /\ Len(corr.output) = Len(corr.previous)
        /\ \A i \in Stories :
              /\ Linked(corr.output[i]) = Linked(corr.previous[i])
              /\ Len(corr.output[i].correlatedWith)
                    = Len(corr.previous[i].correlatedWith)
              /\ corr.output[i].sourceCount = corr.previous[i].sourceCount

\* the second call ran on a result in which a story is linked to two others
C14_Witness ==
    /\ corr.runs = 2
    /\ \E i \in Stories :
          /\ Cardinality(Linked(corr.previous[i])) = 2
          /\ corr.previous[i].sourceCount = 3
          /\ corr.output[i].sourceCount = 3

C16_Original ==
    corr.runs = 1 =>
        \A i \in Stories :
            LET e == corr.output[i]
            IN /\ e.sourceCount >= 3 => e.importance = 5
               /\ e.sourceCount = 2 => e.importance = 4
               /\ e.sourceCount = 1 => e.importance = corr.input[i].importance

(***************************************************************************)
(* C17: calculateSeverity is monotonic in the keyword tier.  The keyword   *)
(* score of title + description is 5 if a critical keyword occurs, else 4  *)
(* if a high keyword occurs, else 3 if a medium keyword occurs, else 2;    *)
(* and a text with a critical keyword scores 5 whatever high or medium     *)
(* keywords and whatever isBreaking / isRecent flags come with it.         *)
(***************************************************************************)
C17_KeywordTier ==
    sev.called =>
        LET text == sev.title \cup sev.description
        IN /\ "critical" \in text => sev.keywordScore = 5
           /\ ("critical" \notin text /\ "high" \in text) => sev.keywordScore = 4
           /\ (text = {"medium"}) => sev.keywordScore = 3
           /\ (text = {}) => sev.keywordScore = 2
           /\ "critical" \in text => sev.score = 5

\* a critical keyword in the description, high and medium keywords in the
\* title, both flags set
C17_Witness ==
    /\ sev.called
    /\ sev.description = {"critical"}
    /\ sev.title = {"high", "medium"}
    /\ sev.isBreaking
    /\ sev.isRecent
    /\ sev.keywordScore = 5
    /\ sev.score = 5

(***************************************************************************)
(* C18: the post-adjustment of calculateSeverity.  For a keyword score s   *)
(* in 2..5: first, if isBreaking and s < 5, s becomes s + 1; then, if      *)
(* isRecent and the current s < 4, s becomes s + 1 (never above 4); the    *)
(* result is in 2..5.                                                      *)
(***************************************************************************)
C18_PostAdjustment ==
    sev.called =>
        LET s == sev.keywordScore
            afterBreaking == IF sev.isBreaking /\ s < 5 THEN s + 1 ELSE s
            afterRecent == IF sev.isRecent /\ afterBreaking < 4
                           THEN afterBreaking + 1 ELSE afterBreaking
        IN /\ s \in 2..5
           /\ afterBreaking <= 5
           /\ (sev.isRecent /\ afterBreaking < 4) => afterRecent <= 4
           /\ sev.score = afterRecent
           /\ sev.score \in 2..5

\* a high-tier text with isBreaking scores 5
C18_Witness ==
    /\ sev.called
    /\ sev.title = {"high"}
    /\ sev.description = {}
    /\ sev.isBreaking
    /\ sev.isRecent
    /\ sev.keywordScore = 4
    /\ sev.score = 5

(***************************************************************************)
(* C19: for a configured feed fetchRSSFeed attempts the proxies strictly   *)
(* in their configured order.  A proxy is attempted only after the attempt *)
(* of every earlier proxy failed (timeout, non-2xx, empty or invalid       *)
(* payload); no proxy is attempted after an attempt succeeded; and when    *)
(* all proxies have failed the feed contributes zero events.               *)
(***************************************************************************)
C19_ProxyOrder ==
    /\ Len(feed.tried) <= 2
    /\ \A n \in 1..Len(feed.tried) :
          /\ feed.tried[n] = <<"allorigins", "corsproxy">>[n]
          /\ \A m \in 1..(n - 1) :
                feed.attempts[m].kind \in
                    {"timeout", "http", "badjson", "empty", "parsererror"}
    /\ (feed.returned /\ \A m \in 1..2 : feed.attempts[m].kind # "ok")
          => feed.events = <<>>

\* the first proxy answered with a status that is not 2xx, the second with
\* a feed of two items
C19_Witness ==
    /\ feed.returned
    /\ feed.attempts[1].kind = "http"
    /\ feed.attempts[2].kind = "ok"
    /\ feed.tried = <<"allorigins", "corsproxy">>
    /\ Len(feed.events) = 2

(***************************************************************************)
(* C20: the fetch of every source adapter (seismic, sentiment-news,        *)
(* syndicated-feed) never throws or rejects.  On a transport failure or a  *)
(* malformed payload its promise fulfils with an empty list, so that no    *)
(* failure reaches fetchAllEvents as an exception.                         *)
(***************************************************************************)
C20_AdaptersNeverReject ==
    [][JoinStep =>
        /\ \A s \in Sources :
              /\ settled'[s].status = "fulfilled"
              /\ settled'[s].down => settled'[s].value = <<>>
        /\ \A s \in Sources : feedHealth'[s].status # "error"
        /\ ret'.kind = "fresh"]_vars

\* a refresh in which each of the three adapters met a failure
C20_Witness ==
    /\ \A s \in Sources :
          /\ settled[s].down
          /\ settled[s].status = "fulfilled"
          /\ settled[s].value = <<>>
          /\ feedHealth[s].status = "empty"
    /\ ret.kind = "fresh"
    /\ ret.list = <<>>

(***************************************************************************)
(* Location extraction.                                                    *)
(***************************************************************************)
\* positions of the index whose key occurs in the text as a whole word
Matching(text) == {i \in 1..Len(searchIndex) : searchIndex[i].key \in text.words}

\* the first position among the matching keys of greatest length
Winner(text) ==
    CHOOSE i \in Matching(text) :
        \A j \in Matching(text) :
            \/ Len(searchIndex[j].key) < Len(searchIndex[i].key)
            \/ Len(searchIndex[j].key) = Len(searchIndex[i].key) /\ i <= j

SameEntry(result, data) ==
    /\ result.found
    /\ result.name = data.name
    /\ result.lat = data.lat
    /\ result.lng = data.lng

C23_Original ==
    [][mutateList \/ mutateHealthRecord
          => cachedEvents' = cachedEvents /\ feedHealth' = feedHealth]_vars

(***************************************************************************)
(* Identifiers and timestamps of the adapters' events.                     *)
(***************************************************************************)
\* two events made from the same raw item: the same adapter, the same url
\* (feature id, place in the feed), title, summary and source name
SameRawItem(a, b) ==
    /\ a.id.src = b.id.src
    /\ a.id.key = b.id.key
    /\ a.title = b.title
    /\ a.summary = b.summary
    /\ a.source = b.source

\* C24 as stated: an item that a source delivers in two refresh cycles gets
\* the same id in both.
C24_Original ==
    [][JoinStep =>
          \A s \in Sources :
              \A a \in Range(settled[s].value), b \in Range(settled'[s].value) :
                  SameRawItem(a, b) => a.id = b.id]_vars

\* C25 as stated: every event an adapter delivers has a valid timestamp (the
\* fetch time when the item's own time is missing or cannot be parsed).
C25_Original ==
    \A s \in Sources :
        \A e \in Range(settled[s].value) : e.timestamp # InvalidDate

(***************************************************************************)
(* The feed and the map under a filter.                                    *)
(***************************************************************************)
\* C26 as stated: whatever the filter level, an event that has a marker on
\* the map is shown on the map exactly when its card is shown in the feed.
C26_Original ==
    \A i \in addEvents(view.events) : i \in view.layers <=> i \in view.cards

(***************************************************************************)
(* The links the correlator returns.                                       *)
(***************************************************************************)
\* C27: in the list correlateStories returns (ids all different) a story b
\* is in the correlatedWith of a exactly when a is in that of b, no id is
\* twice in a correlatedWith, and sourceCount is 1 + the length of
\* correlatedWith.
C27_SymmetricCounted ==
    corr.runs >= 1 =>
        \A i \in 1..Len(corr.output) :
            LET a == corr.output[i]
            IN /\ \A j \in 1..Len(corr.output) :
                      corr.output[j].id \in Linked(a)
                          <=> a.id \in Linked(corr.output[j])
               /\ Cardinality(Linked(a)) = Len(a.correlatedWith)
               /\ a.sourceCount = 1 + Len(a.correlatedWith)

\* three stories of three sources, each linked to the other two
C27_Witness ==
    /\ corr.runs = 1
    /\ Len(corr.output) = 3
    /\ corr.output[1].correlatedWith = <<2, 3>>
    /\ corr.output[2].correlatedWith = <<1, 3>>
    /\ corr.output[3].correlatedWith = <<1, 2>>
    /\ \A i \in 1..3 : corr.output[i].sourceCount = 3

C29_WholeCycle ==
    [][/\ cachedEvents' # cachedEvents \/ lastFetchTime' # lastFetchTime =>
              \/ JoinStep
              \/ cachedEvents' = <<>> /\ lastFetchTime' = NULL
       /\ JoinStep =>
              /\ cachedEvents' = ret'.list
              /\ lastFetchTime' = now
              /\ \A s \in Sources : feedHealth'[s].lastCheck = lastFetchTime'
              /\ \A e \in Range(cachedEvents') :
                    \E d \in Range(DeliveredOf(settled')) : d.id = e.id]_vars

\* at minute 5 a call has resumed and cached the two earthquakes of its
\* cycle while another call is still suspended
C29_Witness ==
    /\ suspended = 1
    /\ ret.kind = "fresh"
    /\ cachedEvents = ret.list
    /\ Len(cachedEvents) = 2
    /\ now = 5
    /\ lastFetchTime = now
    /\ \A e \in Range(cachedEvents) : e.id.src = "usgs"

(***************************************************************************)
(* What processEvents does to an event.                                    *)
(***************************************************************************)
\* the importance processEvents gives to the delivered event d at time t
ExpectedImportance(d, t) ==
    LET given == IF d.importance = 0 THEN 2 ELSE d.importance
    IN IF d.isBreaking /\ d.timestamp > t - THREE_HOURS_MS
       THEN (IF given + 1 > 5 THEN 5 ELSE given + 1)
       ELSE given

\* C30: every cached event is a delivered event whose importance (2 when
\* absent) is unchanged, or raised by 1 and capped at 5 exactly when the
\* event is breaking and less than 3 hours old at the refresh; it is never
\* lowered; correlatedWith is [] and sourceCount is the delivered one (1
\* when absent).
C30_ProcessEvents ==
    \A e \in Range(cachedEvents) :
        \E d \in Range(DeliveredOf(settled)) :
            /\ d.id = e.id
            /\ e.importance = ExpectedImportance(d, lastFetchTime)
            /\ e.importance >= d.importance
            /\ e.correlatedWith = <<>>
            /\ e.sourceCount = (IF d.sourceCount = 0 THEN 1 ELSE d.sourceCount)

\* one cycle with a breaking earthquake of the last 3 hours raised from 4
\* to 5 and a breaking article older than that left at 4
C30_Witness ==
    /\ \E e \in Range(cachedEvents), d \in Range(DeliveredOf(settled)) :
          /\ d.id = e.id
          /\ d.isBreaking /\ d.timestamp > lastFetchTime - THREE_HOURS_MS
          /\ d.importance = 4 /\ e.importance = 5
    /\ \E e \in Range(cachedEvents), d \in Range(DeliveredOf(settled)) :
          /\ d.id = e.id
          /\ d.isBreaking /\ d.timestamp <= lastFetchTime - THREE_HOURS_MS
          /\ d.importance = 4 /\ e.importance = 4

====
